---------------------------- MODULE Spec2Model ----------------------------
(***************************************************************************)
(* Model of multidevice/message.go: the encrypted-message ingestion        *)
(* pipeline (handleEncryptedMessage, decryptMessages, the padding codec,   *)
(* handleDecryptedMessage and sendRetryReceipt).                           *)
(*                                                                         *)
(* Three specifications share the definitions below:                       *)
(*   Spec      the pipeline of a fresh client: the receive path starts one *)
(*             goroutine per inbound unit, the goroutines interleave;      *)
(*   UnitSpec  one inbound unit, over a wider set of units, in a client    *)
(*             that has run before;                                        *)
(*   PadSpec   the padding codec as a pure function of its inputs.         *)
(***************************************************************************)
EXTENDS Integers, Sequences, FiniteSets, TLC

(***************************************************************************)
(* Bounds of the model.                                                    *)
(***************************************************************************)
\* Inbound units (goroutines started by the receive path) in one behaviour.
MaxUnits == 2
\* Children of one inbound unit.
MaxChildren == 2
\* Length of the byte sequences handed to the padding codec in PadSpec.
MaxPlainLen == 2

(***************************************************************************)
(* Bytes and byte sequences.                                               *)
(***************************************************************************)
Byte == 0..255

\* The byte values the inputs of PadSpec are built from: small values that
\* can be mistaken for padding lengths, and one value above 15.
PlainBytes == {0, 1, 2, 19}

\* bytes.Repeat([]byte{b}, n)
Repeat(b, n) == [i \in 1..n |-> b]

\* bytes.HasSuffix(s, suffix)
HasSuffix(s, suffix) ==
    /\ Len(s) >= Len(suffix)
    /\ SubSeq(s, Len(s) - Len(suffix) + 1, Len(s)) = suffix

SeqsUpTo(S, n) == UNION {[1..k -> S] : k \in 0..n}

NoBytes == << >>

(***************************************************************************)
(* unpadMessage, message.go:80-89.  The Go function returns (bytes, error) *)
(* or panics (index out of range on an empty buffer, slice bounds out of   *)
(* range when the last byte exceeds the length and the check is off).      *)
(***************************************************************************)
UnpadOk(out)  == [status |-> "ok",         out |-> out]
UnpadBad      == [status |-> "BadPadding", out |-> NoBytes]
UnpadPanic    == [status |-> "panic",      out |-> NoBytes]

\* A slip: the check compares the length only, not the bytes.
PaddingCheckLengthOnly(plaintext) ==
    Len(plaintext) >= plaintext[Len(plaintext)]

\* The padding check of lines 81-87: TRUE when the check lets the buffer pass.
PaddingCheckPasses(plaintext) ==
    LET lastByte == plaintext[Len(plaintext)]
        expectedPadding == Repeat(lastByte, lastByte)
    IN  HasSuffix(plaintext, expectedPadding)

UnpadMessage(plaintext, check) ==
    IF Len(plaintext) = 0
    THEN UnpadPanic                     \* plaintext[len(plaintext)-1] panics
    ELSE IF check /\ ~PaddingCheckPasses(plaintext)
    THEN UnpadBad
    ELSE LET n == Len(plaintext) - plaintext[Len(plaintext)]
         IN  IF n < 0
             THEN UnpadPanic            \* plaintext[:n] with n < 0 panics
             ELSE UnpadOk(SubSeq(plaintext, 1, n))

(***************************************************************************)
(* padMessage, message.go:91-99.  r is the byte rand.Read returned: the    *)
(* padding is r&0xf copies of r itself.                                    *)
(***************************************************************************)
PadMessage(plaintext, r) == plaintext \o Repeat(r, r % 16)

(***************************************************************************)
(* Addresses, attributes and inbound units.  An attribute that is absent   *)
(* (or fails the Go type assertion) is NoJID / NoStr.                      *)
(***************************************************************************)
UserServer  == "s.whatsapp.net"
GroupServer == "g.us"
NoJID    == [user |-> "",     server |-> ""]
PeerJID  == [user |-> "peer", server |-> UserServer]
MeJID    == [user |-> "me",   server |-> UserServer]
GroupJID == [user |-> "grp",  server |-> GroupServer]
\* cli.Session.ID.User
OwnUser  == "me"
NoStr    == "<absent>"

\* Children of an inbound unit: a tag and the `type` attribute.
Unavailable == [tag |-> "unavailable", type |-> NoStr]
Enc(t)      == [tag |-> "enc",         type |-> t]
OtherChild  == [tag |-> "meta",        type |-> NoStr]

\* The children the one-unit specification draws from ...
UnitChildKinds ==
    {Unavailable, OtherChild, Enc(NoStr), Enc("future"),
     Enc("pkmsg"), Enc("msg"), Enc("skmsg")}
\* ... and the children lists of the concurrent specification: one child,
\* unavailable, pairwise ciphertext or group ciphertext.
ConcChildren == {<<Unavailable>>, <<Enc("msg")>>, <<Enc("skmsg")>>}

MakeNodes(tags, froms, parts, recips, ids, ts, cats, kids) ==
    [tag : tags, from : froms, participant : parts, recipient : recips,
     id : ids, t : ts, category : cats, children : kids]

\* Inbound units of the one-unit specification: `message` units over every
\* combination of present, absent and malformed attributes (but for
\* `recipient`, which is only copied into the receipts), and one unit with
\* another tag.
UnitNodes ==
    MakeNodes({"message"}, {NoJID, PeerJID, MeJID, GroupJID},
              {NoJID, PeerJID}, {NoJID}, {NoStr, "", "A"},
              {NoStr, "1630", "16x"}, {NoStr, "peer"},
              SeqsUpTo(UnitChildKinds, MaxChildren))
    \cup MakeNodes({"notification"}, {PeerJID}, {NoJID}, {NoJID}, {"A"},
                    {"1630"}, {NoStr}, {<<Enc("msg")>>})

\* Inbound units of the concurrent specification: well-formed units of one
\* sender in one group, which may share their id.
ConcNodes ==
    MakeNodes({"message"}, {GroupJID}, {PeerJID}, {NoJID}, {"", "A"},
              {"1630"}, {NoStr}, ConcChildren)

IdStrs == {"", "A"}

(***************************************************************************)
(* parseMessageInfo, message.go:170-209.                                   *)
(***************************************************************************)
\* strconv.ParseInt(ts, 10, 64) on the timestamps the model draws.
ParseInt(ts) ==
    IF ts = "1630" THEN [ok |-> TRUE, val |-> 1630] ELSE [ok |-> FALSE, val |-> 0]

NoInfo ==
    [From |-> NoJID, Chat |-> NoJID, ID |-> "", Recipient |-> NoJID,
     Notify |-> "", Timestamp |-> 0, Category |-> ""]

StrOrEmpty(s) == IF s = NoStr THEN "" ELSE s

\* A slip: the error of ParseInt dropped, the timestamp left at zero.
ParseMessageInfoAnyTime(n) ==
    IF \/ n.from = NoJID
       \/ n.from.server = GroupServer /\ n.participant = NoJID
       \/ n.id = NoStr
       \/ n.t = NoStr
    THEN [ok |-> FALSE, info |-> NoInfo]
    ELSE [ok |-> TRUE,
          info |-> [From      |-> IF n.from.server = GroupServer
                                  THEN n.participant ELSE n.from,
                    Chat      |-> IF n.from.server = GroupServer
                                  THEN n.from ELSE NoJID,
                    ID        |-> n.id,
                    Recipient |-> n.recipient,
                    Notify    |-> "",
                    Timestamp |-> ParseInt(n.t).val,
                    Category  |-> StrOrEmpty(n.category)]]

ParseMessageInfo(n) ==
    IF n.from = NoJID
    THEN [ok |-> FALSE, info |-> NoInfo]
    ELSE IF n.from.server = GroupServer /\ n.participant = NoJID
    THEN [ok |-> FALSE, info |-> NoInfo]
    ELSE IF n.id = NoStr
    THEN [ok |-> FALSE, info |-> NoInfo]
    ELSE IF n.t = NoStr \/ ~ParseInt(n.t).ok
    THEN [ok |-> FALSE, info |-> NoInfo]
    ELSE [ok |-> TRUE,
          info |-> [From      |-> IF n.from.server = GroupServer
                                  THEN n.participant ELSE n.from,
                    Chat      |-> IF n.from.server = GroupServer
                                  THEN n.from ELSE NoJID,
                    ID        |-> n.id,
                    Recipient |-> n.recipient,
                    Notify    |-> "",
                    Timestamp |-> ParseInt(n.t).val,
                    Category  |-> StrOrEmpty(n.category)]]

(***************************************************************************)
(* The external capabilities, as the outcomes they can produce.            *)
(***************************************************************************)
\* Plaintexts a cipher may return: empty, well padded, padded with a last
\* byte that does not match, and a last byte larger than the buffer.
Plaintexts == {NoBytes, <<8, 1>>, <<8, 2>>, <<3>>}

CipherErrors == {[err |-> "parse", plaintext |-> NoBytes],
                 [err |-> "decrypt", plaintext |-> NoBytes]}

CipherResults ==
    CipherErrors \cup {[err |-> "", plaintext |-> p] : p \in Plaintexts}

\* groups.GroupCipher.Decrypt: without a sender-key session for the name the
\* cipher can only fail.
GroupCipherResults(haveSenderKey) ==
    IF haveSenderKey THEN CipherResults ELSE CipherErrors

\* protocol.NewSenderKeyName(chat.String(), from.SignalAddress())
SenderKeyName(chat, from) == <<chat, from>>

\* Decoded application payloads: whether they carry a sender-key
\* distribution, and their protocol-control sub-payload.
NoMsg == [skdm |-> FALSE, proto |-> "none"]
Msgs  == [skdm : BOOLEAN, proto : {"none", "hist", "other"}]

\* proto.Unmarshal(decrypted, &msg)
DecodeResults ==
    {[ok |-> FALSE, msg |-> NoMsg]} \cup {[ok |-> TRUE, msg |-> m] : m \in Msgs}

(***************************************************************************)
(* decryptDM / decryptGroupMsg, message.go:33-76: the cipher's result, then *)
(* unpadMessage.  status is "ok", "error" or "panic".                      *)
(***************************************************************************)
Decrypt(res, check) ==
    IF res.err # ""
    THEN [status |-> "error", out |-> NoBytes]
    ELSE LET r == UnpadMessage(res.plaintext, check)
         IN  IF r.status = "BadPadding"
             THEN [status |-> "error", out |-> NoBytes]
             ELSE r

VARIABLES
    CheckPadding,       \* the package variable of message.go:78
    padPc, padX, padR, padBuf, padRes,     \* PadSpec: one codec computation
    pc,                 \* each unit's position
    node,               \* the inbound unit
    info,               \* its MessageInfo
    idx,                \* decryptMessages: the child the loop is at
    handled,            \* decryptMessages: the local `handled`
    msg,                \* the payload handleDecryptedMessage is called with
    retryCount,         \* sendRetryReceipt: the local `retryCount`
    loaded,             \* sendRetryReceipt: the value `++` read from the map
    trace,              \* what each unit's task did, in order
    sent,               \* the units handed to sendNode / sendAck, in order
    messageRetries,     \* cli.messageRetries
    messageRetriesLock, \* the unit holding cli.messageRetriesLock, or 0
    senderKeys          \* sender-key sessions of the session store

padVars == <<padPc, padX, padR, padBuf, padRes>>

unitVars ==
    <<pc, node, info, idx, handled, msg, retryCount, loaded, trace, sent>>

sharedVars == <<messageRetries, messageRetriesLock, senderKeys>>

vars == <<CheckPadding, padVars, unitVars, sharedVars>>

Units == 1..MaxUnits

NoNode ==
    [tag |-> "", from |-> NoJID, participant |-> NoJID, recipient |-> NoJID,
     id |-> NoStr, t |-> NoStr, category |-> NoStr, children |-> << >>]

\* No unit has arrived, nothing is shared yet.
UnitsIdle ==
    /\ pc = [u \in Units |-> "idle"]
    /\ node = [u \in Units |-> NoNode]
    /\ info = [u \in Units |-> NoInfo]
    /\ idx = [u \in Units |-> 0]
    /\ handled = [u \in Units |-> FALSE]
    /\ msg = [u \in Units |-> NoMsg]
    /\ retryCount = [u \in Units |-> 0]
    /\ loaded = [u \in Units |-> 0]
    /\ trace = [u \in Units |-> << >>]
    /\ sent = [u \in Units |-> << >>]

(***************************************************************************)
(* What the tasks record: trace events and the units handed to the         *)
(* transport.                                                              *)
(***************************************************************************)
Ev(e, i) == [ev |-> e, i |-> i]

\* A unit handed to sendNode (or sendAck): tag, `type` and `id` attributes,
\* the retry child's count, and the tags of the `keys` child's children.
Unit(tag, type, id, count, keys) ==
    [tag |-> tag, type |-> type, id |-> id, count |-> count, keys |-> keys]

Log(u, evs)   == trace' = [trace EXCEPT ![u] = @ \o evs]
Send(u, outs) == sent' = [sent EXCEPT ![u] = @ \o outs]
Goto(u, l)    == pc' = [pc EXCEPT ![u] = l]

\* An unrecovered panic in a goroutine ends the process: nothing runs after.
Alive == \A v \in Units : pc[v] # "panic"

(***************************************************************************)
(* handleEncryptedMessage, message.go:211-225.  The receive path takes the *)
(* inbound units one after the other.                                      *)
(***************************************************************************)
Receive(u, nodes) ==
    /\ Alive
    /\ pc[u] = "idle"
    /\ \A v \in Units : v < u => pc[v] # "idle"
    /\ \E n \in nodes :
          /\ node' = [node EXCEPT ![u] = n]
          /\ IF n.tag # "message"
             THEN Goto(u, "ignored") /\ UNCHANGED info
             ELSE LET r == ParseMessageInfo(n)
                  IN  IF ~r.ok
                      THEN Goto(u, "dropped") /\ UNCHANGED info
                      ELSE /\ Goto(u, "start")      \* go cli.decryptMessages
                           /\ info' = [info EXCEPT ![u] = r.info]
    /\ UNCHANGED <<CheckPadding, padVars, idx, handled, msg, retryCount, loaded,
                   trace, sent, sharedVars>>

(***************************************************************************)
(* decryptMessages, message.go:101-147.                                    *)
(***************************************************************************)
\* node.GetChildrenByTag(tag)
GetChildrenByTag(n, tag) == SelectSeq(n.children, LAMBDA c : c.tag = tag)

\* A slip: the comparison of line 102 inverted.
AllUnavailableInverted(n) ==
    Len(GetChildrenByTag(n, "unavailable")) # Len(n.children)

\* line 102
AllUnavailable(n) == Len(GetChildrenByTag(n, "unavailable")) = Len(n.children)

\* lines 102-108
Begin(u) ==
    /\ Alive
    /\ pc[u] = "start"
    /\ IF AllUnavailable(node[u])
       THEN Goto(u, "retry") /\ UNCHANGED idx
       ELSE Goto(u, "loop") /\ idx' = [idx EXCEPT ![u] = 1]
    /\ UNCHANGED <<CheckPadding, padVars, node, info, handled, msg,
                   retryCount, loaded, trace, sent, sharedVars>>

\* A slip: a type that is not a group ciphertext handed to decryptDM.
RouteUnknownAsDirect(child, chat) ==
    IF child.tag # "enc" THEN "skip"
    ELSE IF child.type = NoStr THEN "skip"
    ELSE IF chat # NoJID /\ child.type = "skmsg" THEN "group"
    ELSE "dm"

\* lines 110-126: what the loop does with a child before any decryption.
Route(child, chat) ==
    IF child.tag # "enc" THEN "skip"
    ELSE IF child.type = NoStr THEN "skip"
    ELSE IF child.type = "pkmsg" \/ child.type = "msg" THEN "dm"
    ELSE IF chat # NoJID /\ child.type = "skmsg" THEN "group"
    ELSE "unhandled"

\* The results the cipher of a child can give in the current store.
CipherResultsFor(u, route) ==
    IF route = "dm"
    THEN CipherResults
    ELSE GroupCipherResults(
             SenderKeyName(info[u].Chat, info[u].From) \in senderKeys)

\* What the trace records of a call of decryptDM / decryptGroupMsg: the
\* call, and for a group ciphertext whether the store had no sender-key
\* session for (chat, sender) when it was made.
Attempt(u, route, i) ==
    (IF /\ route = "group"
        /\ SenderKeyName(info[u].Chat, info[u].From) \notin senderKeys
     THEN <<Ev("nokey", i)>> ELSE << >>)
    \o <<Ev("decrypt", i)>>

\* A slip: the error is logged and the task returns without a retry.
OnDecryptErrorNoRetry(u) == Goto(u, "done")

\* lines 127-131: what follows a decrypt error.
OnDecryptError(u) == Goto(u, "retry")

\* A slip: a decrypt error treated like a decode error, `continue`.
ChildContinueOnError(u) ==
    /\ Alive
    /\ pc[u] = "loop"
    /\ idx[u] <= Len(node[u].children)
    /\ LET i == idx[u]
           route == Route(node[u].children[i], info[u].Chat)
       IN  IF route \in {"skip", "unhandled"}
           THEN /\ idx' = [idx EXCEPT ![u] = i + 1]
                /\ Log(u, <<Ev(route, i)>>)
                /\ UNCHANGED <<pc, msg>>
           ELSE \E res \in CipherResultsFor(u, route) :
                  LET d == Decrypt(res, CheckPadding)
                      call == Attempt(u, route, i)
                  IN  CASE d.status = "panic" ->
                             /\ Goto(u, "panic")
                             /\ Log(u, call \o <<Ev("panic", i)>>)
                             /\ UNCHANGED <<idx, msg>>
                        [] d.status = "error" ->
                             /\ idx' = [idx EXCEPT ![u] = i + 1]
                             /\ Log(u, call \o <<Ev("failed", i)>>)
                             /\ UNCHANGED <<pc, msg>>
                        [] OTHER ->
                             \E dec \in DecodeResults :
                                IF ~dec.ok
                                THEN /\ idx' = [idx EXCEPT ![u] = i + 1]
                                     /\ Log(u, call \o <<Ev("undecodable", i)>>)
                                     /\ UNCHANGED <<pc, msg>>
                                ELSE /\ Goto(u, "handle")
                                     /\ msg' = [msg EXCEPT ![u] = dec.msg]
                                     /\ Log(u, call \o <<Ev("decoded", i)>>)
                                     /\ UNCHANGED idx
    /\ UNCHANGED <<CheckPadding, padVars, node, info, handled, retryCount, loaded,
                   sent, sharedVars>>

\* lines 109-138: one iteration up to the call of handleDecryptedMessage.
Child(u) ==
    /\ Alive
    /\ pc[u] = "loop"
    /\ idx[u] <= Len(node[u].children)
    /\ LET i == idx[u]
           route == Route(node[u].children[i], info[u].Chat)
       IN  IF route \in {"skip", "unhandled"}
           THEN /\ idx' = [idx EXCEPT ![u] = i + 1]
                /\ Log(u, <<Ev(route, i)>>)
                /\ UNCHANGED <<pc, msg>>
           ELSE \E res \in CipherResultsFor(u, route) :
                  LET d == Decrypt(res, CheckPadding)
                      call == Attempt(u, route, i)
                  IN  CASE d.status = "panic" ->
                             /\ Goto(u, "panic")
                             /\ Log(u, call \o <<Ev("panic", i)>>)
                             /\ UNCHANGED <<idx, msg>>
                        [] d.status = "error" ->
                             /\ OnDecryptError(u)
                             /\ Log(u, call \o <<Ev("failed", i)>>)
                             /\ UNCHANGED <<idx, msg>>
                        [] OTHER ->
                             \E dec \in DecodeResults :
                                IF ~dec.ok
                                THEN /\ idx' = [idx EXCEPT ![u] = i + 1]
                                     /\ Log(u, call \o <<Ev("undecodable", i)>>)
                                     /\ UNCHANGED <<pc, msg>>
                                ELSE /\ Goto(u, "handle")
                                     /\ msg' = [msg EXCEPT ![u] = dec.msg]
                                     /\ Log(u, call \o <<Ev("decoded", i)>>)
                                     /\ UNCHANGED idx
    /\ UNCHANGED <<CheckPadding, padVars, node, info, handled, retryCount, loaded,
                   sent, sharedVars>>

(***************************************************************************)
(* handleDecryptedMessage, message.go:276-285, with the handlers it calls. *)
(***************************************************************************)
\* sendProtocolMessageReceipt, lines 287-303
ProtocolMessageReceipt(id, msgType) ==
    IF Len(id) = 0 THEN << >> ELSE <<Unit("receipt", msgType, id, 0, << >>)>>

\* handleProtocolMessage, lines 260-269
ProtocolMessageReceipts(i, m) ==
    (IF m.proto = "hist" THEN ProtocolMessageReceipt(i.ID, "hist_sync") ELSE << >>)
    \o (IF i.Category = "peer" THEN ProtocolMessageReceipt(i.ID, "peer_msg") ELSE << >>)

\* A slip: the session stored under the name of the chat alone.
HandleSkdWrongName(u) ==
    /\ Alive
    /\ pc[u] = "handle"
    /\ LET i == idx[u]
           m == msg[u]
       IN  IF m.skdm /\ info[u].Chat = NoJID
           THEN \* *info.Chat with a nil Chat
                /\ Goto(u, "panic")
                /\ Log(u, <<Ev("panic", i)>>)
                /\ UNCHANGED <<idx, handled, msg, sent, senderKeys>>
           ELSE \E skdOk \in BOOLEAN, histOk \in BOOLEAN :
                /\ m.skdm \/ skdOk
                /\ m.proto = "hist" \/ histOk
                /\ senderKeys' =
                      IF m.skdm /\ skdOk
                      THEN senderKeys \cup
                              {SenderKeyName(info[u].Chat, info[u].Chat)}
                      ELSE senderKeys
                /\ Send(u, IF m.proto # "none"
                           THEN ProtocolMessageReceipts(info[u], m) ELSE << >>)
                /\ Log(u, (IF m.skdm /\ skdOk THEN <<Ev("skd", i)>>
                           ELSE IF m.skdm THEN <<Ev("badskd", i)>> ELSE << >>)
                          \o <<Ev("dispatch", i)>>)
                /\ handled' = [handled EXCEPT ![u] = TRUE]
                /\ msg' = [msg EXCEPT ![u] = NoMsg]
                /\ idx' = [idx EXCEPT ![u] = i + 1]
                /\ Goto(u, "loop")
    /\ UNCHANGED <<CheckPadding, padVars, node, info, retryCount, loaded,
                   messageRetries, messageRetriesLock>>

\* lines 276-285 and 140-141.  The parse of the distribution message (line
\* 230) and the steps of the history sync (lines 240-246) succeed or fail.
Handle(u) ==
    /\ Alive
    /\ pc[u] = "handle"
    /\ LET i == idx[u]
           m == msg[u]
       IN  IF m.skdm /\ info[u].Chat = NoJID
           THEN \* *info.Chat with a nil Chat
                /\ Goto(u, "panic")
                /\ Log(u, <<Ev("panic", i)>>)
                /\ UNCHANGED <<idx, handled, msg, sent, senderKeys>>
           ELSE \E skdOk \in BOOLEAN, histOk \in BOOLEAN :
                /\ m.skdm \/ skdOk
                /\ m.proto = "hist" \/ histOk
                /\ senderKeys' =
                      IF m.skdm /\ skdOk
                      THEN senderKeys \cup
                              {SenderKeyName(info[u].Chat, info[u].From)}
                      ELSE senderKeys
                /\ Send(u, IF m.proto # "none"
                           THEN ProtocolMessageReceipts(info[u], m) ELSE << >>)
                /\ Log(u, (IF m.skdm /\ skdOk THEN <<Ev("skd", i)>>
                           ELSE IF m.skdm THEN <<Ev("badskd", i)>> ELSE << >>)
                          \o <<Ev("dispatch", i)>>)
                /\ handled' = [handled EXCEPT ![u] = TRUE]
                /\ msg' = [msg EXCEPT ![u] = NoMsg]
                /\ idx' = [idx EXCEPT ![u] = i + 1]
                /\ Goto(u, "loop")
    /\ UNCHANGED <<CheckPadding, padVars, node, info, retryCount, loaded,
                   messageRetries, messageRetriesLock>>

\* sendMessageReceipt, lines 326-352
MessageReceipt(i) ==
    Unit("receipt", IF i.From.user = OwnUser THEN "sender" ELSE "inactive",
         i.ID, 0, << >>)

\* sendAck(node)
Ack(n) == Unit("ack", "", StrOrEmpty(n.id), 0, << >>)

\* Slips: the ack sent before the receipt; `handled` not consulted.
FinalEmissionsAckFirst(u) ==
    IF handled[u] THEN <<Ack(node[u]), MessageReceipt(info[u])>> ELSE << >>

FinalEmissionsUnconditional(u) == <<MessageReceipt(info[u]), Ack(node[u])>>

\* lines 143-146: what the task emits when the loop is over.
FinalEmissions(u) ==
    IF handled[u] THEN <<MessageReceipt(info[u]), Ack(node[u])>> ELSE << >>

Finish(u) ==
    /\ Alive
    /\ pc[u] = "loop"
    /\ idx[u] > Len(node[u].children)
    /\ Send(u, FinalEmissions(u))
    /\ Goto(u, "done")
    /\ UNCHANGED <<CheckPadding, padVars, node, info, idx, handled, msg,
                   retryCount, loaded, trace, sharedVars>>

(***************************************************************************)
(* sendRetryReceipt, message.go:354-410.                                   *)
(***************************************************************************)
\* A slip: the counter touched without the lock.
LockNotTaken == TRUE

\* line 357: Lock() returns when no task holds the lock.
LockFree == messageRetriesLock = 0

\* line 355: id, _ := node.Attrs["id"].(string)
RetryId(u) == StrOrEmpty(node[u].id)

\* The units whose sendRetryReceipt for `id` has passed Lock().
Triggered(id) ==
    {v \in Units : /\ RetryId(v) = id
                   /\ pc[v] \in {"retry_load", "retry_store", "retry_read",
                                  "retry_unlock", "retry_send", "retried"}}

RetryLock(u) ==
    /\ Alive
    /\ pc[u] = "retry"
    /\ LockFree
    /\ messageRetriesLock' = u
    /\ Log(u, <<Ev("lock", Cardinality(Triggered(RetryId(u))) + 1)>>)
    /\ Goto(u, "retry_load")
    /\ UNCHANGED <<CheckPadding, padVars, node, info, idx, handled, msg,
                   retryCount, loaded, sent, messageRetries, senderKeys>>

\* line 358, cli.messageRetries[id]++: the read of the map ...
RetryLoad(u) ==
    /\ Alive
    /\ pc[u] = "retry_load"
    /\ loaded' = [loaded EXCEPT ![u] = messageRetries[RetryId(u)]]
    /\ Goto(u, "retry_store")
    /\ UNCHANGED <<CheckPadding, padVars, node, info, idx, handled, msg,
                   retryCount, trace, sent, sharedVars>>

\* A slip: the counter of the id set to one instead of incremented.
RetryStoreReset(u) ==
    /\ Alive
    /\ pc[u] = "retry_store"
    /\ messageRetries' = [messageRetries EXCEPT ![RetryId(u)] = 1]
    /\ Log(u, <<Ev("incr", loaded[u])>>)
    /\ Goto(u, "retry_read")
    /\ UNCHANGED <<CheckPadding, padVars, node, info, idx, handled, msg,
                   retryCount, loaded, sent, messageRetriesLock, senderKeys>>

\* ... and the write of the incremented value.
RetryStore(u) ==
    /\ Alive
    /\ pc[u] = "retry_store"
    /\ messageRetries' = [messageRetries EXCEPT ![RetryId(u)] = loaded[u] + 1]
    /\ Log(u, <<Ev("incr", loaded[u])>>)
    /\ Goto(u, "retry_read")
    /\ UNCHANGED <<CheckPadding, padVars, node, info, idx, handled, msg,
                   retryCount, loaded, sent, messageRetriesLock, senderKeys>>

\* line 359
RetryRead(u) ==
    /\ Alive
    /\ pc[u] = "retry_read"
    /\ retryCount' = [retryCount EXCEPT ![u] = messageRetries[RetryId(u)]]
    /\ Goto(u, "retry_unlock")
    /\ UNCHANGED <<CheckPadding, padVars, node, info, idx, handled, msg,
                   loaded, trace, sent, sharedVars>>

\* A slip: the Unlock deferred to the return of sendRetryReceipt.
RetryUnlockDeferred(u) ==
    /\ Alive
    /\ pc[u] = "retry_unlock"
    /\ Goto(u, "retry_send")
    /\ UNCHANGED <<CheckPadding, padVars, node, info, idx, handled, msg,
                   retryCount, loaded, trace, sent, sharedVars>>

\* line 360
RetryUnlock(u) ==
    /\ Alive
    /\ pc[u] = "retry_unlock"
    /\ messageRetriesLock' = 0
    /\ Goto(u, "retry_send")
    /\ UNCHANGED <<CheckPadding, padVars, node, info, idx, handled, msg,
                   retryCount, loaded, trace, sent, messageRetries,
                   senderKeys>>

\* A slip: the bundle attached from the first retry on.
NeedsKeysFromFirst(count) == count >= 1

\* line 388
NeedsKeys(count) == count > 1

\* lines 395-404: the children of the `keys` child; GetOrGenPreKeys(1)
\* gives the one-time prekey.
KeysBundle == <<"type", "identity", "prekey", "signed-prekey", "device-identity">>

\* A slip: `break` for `return` after sendRetryReceipt, so that the end of
\* decryptMessages is reached.
RetrySendThenFinish(u) ==
    /\ Alive
    /\ pc[u] = "retry_send"
    /\ \E marshalOk \in BOOLEAN :
          /\ NeedsKeys(retryCount[u]) \/ marshalOk
          /\ IF NeedsKeys(retryCount[u]) /\ ~marshalOk
             THEN UNCHANGED sent
             ELSE Send(u, <<Unit("receipt", "retry", RetryId(u), retryCount[u],
                                 IF NeedsKeys(retryCount[u])
                                 THEN KeysBundle ELSE << >>)>>)
    /\ idx' = [idx EXCEPT ![u] = Len(node[u].children) + 1]
    /\ Goto(u, "loop")
    /\ UNCHANGED <<CheckPadding, padVars, node, info, handled, msg,
                   retryCount, loaded, trace, sharedVars>>

\* lines 362-406
RetrySend(u) ==
    /\ Alive
    /\ pc[u] = "retry_send"
    /\ \E marshalOk \in BOOLEAN :
          /\ NeedsKeys(retryCount[u]) \/ marshalOk
          /\ IF NeedsKeys(retryCount[u]) /\ ~marshalOk
             THEN UNCHANGED sent        \* line 393: return without sending
             ELSE Send(u, <<Unit("receipt", "retry", RetryId(u), retryCount[u],
                                 IF NeedsKeys(retryCount[u])
                                 THEN KeysBundle ELSE << >>)>>)
    /\ Goto(u, "retried")
    /\ UNCHANGED <<CheckPadding, padVars, node, info, idx, handled, msg,
                   retryCount, loaded, trace, sharedVars>>

(***************************************************************************)
(* Spec: the receive path and the goroutines of MaxUnits inbound units.    *)
(***************************************************************************)
Task(u) ==
    \/ Begin(u) \/ Child(u) \/ Handle(u) \/ Finish(u)
    \/ RetryLock(u) \/ RetryLoad(u) \/ RetryStore(u) \/ RetryRead(u)
    \/ RetryUnlock(u) \/ RetrySend(u)

(***************************************************************************)
(* PadSpec: the codec on bounded inputs.  A computation either pads x with *)
(* a random byte and unpads the result, or unpads x as it stands.          *)
(***************************************************************************)
PadIdle ==
    /\ padPc = "idle"
    /\ padX = NoBytes /\ padR = 0 /\ padBuf = NoBytes /\ padRes = UnpadOk(NoBytes)

PadInit ==
    /\ CheckPadding = TRUE                \* message.go:78
    /\ UnitsIdle
    /\ messageRetries = [i \in IdStrs |-> 0]
    /\ messageRetriesLock = 0
    /\ senderKeys = {}
    /\ padPc = "input"
    /\ padX \in SeqsUpTo(PlainBytes, MaxPlainLen)
    /\ padR = 0 /\ padBuf = NoBytes /\ padRes = UnpadOk(NoBytes)

\* padMessage(x) with the random byte r.
DoPad ==
    /\ padPc = "input"
    /\ \E r \in Byte :
          /\ padR' = r
          /\ padBuf' = PadMessage(padX, r)
    /\ padPc' = "padded"
    /\ UNCHANGED <<CheckPadding, padX, padRes, unitVars, sharedVars>>

\* unpadMessage(padMessage(x)).
DoUnpadPadded ==
    /\ padPc = "padded"
    /\ padRes' = UnpadMessage(padBuf, CheckPadding)
    /\ padPc' = "roundtrip"
    /\ UNCHANGED <<CheckPadding, padX, padR, padBuf, unitVars, sharedVars>>

\* unpadMessage(x) on an arbitrary buffer x.
DoUnpadRaw ==
    /\ padPc = "input"
    /\ padBuf' = padX
    /\ padRes' = UnpadMessage(padX, CheckPadding)
    /\ padPc' = "unpadded"
    /\ UNCHANGED <<CheckPadding, padX, padR, unitVars, sharedVars>>

PadNext == DoPad \/ DoUnpadPadded \/ DoUnpadRaw

PadSpec == PadInit /\ [][PadNext]_vars

(***************************************************************************)
(* Spec: the concurrent pipeline from a fresh client.                      *)
(***************************************************************************)
Init ==
    /\ CheckPadding = TRUE                \* message.go:78
    /\ PadIdle
    /\ UnitsIdle
    /\ messageRetries = [i \in IdStrs |-> 0]
    /\ messageRetriesLock = 0
    /\ senderKeys = {}

Next == \E u \in Units : Receive(u, ConcNodes) \/ Task(u)

Spec == Init /\ [][Next]_vars

(***************************************************************************)
(* UnitSpec: one inbound unit, drawn from the wider UnitNodes, processed   *)
(* by a client that has run before: every id has had 0..MaxPrior retries   *)
(* and the sender-key session of the group may exist.                      *)
(***************************************************************************)
MaxPrior == 1

UnitInit ==
    /\ CheckPadding = TRUE                \* message.go:78
    /\ PadIdle
    /\ UnitsIdle
    /\ \E k \in 0..MaxPrior : messageRetries = [i \in IdStrs |-> k]
    /\ messageRetriesLock = 0
    /\ senderKeys \in SUBSET {SenderKeyName(GroupJID, PeerJID)}

UnitNext == Receive(1, UnitNodes) \/ Task(1)

UnitSpec == UnitInit /\ [][UnitNext]_vars

(***************************************************************************)
(* Observations on the trace and on the units sent.                        *)
(***************************************************************************)
EvIndices(u, e) == {k \in 1..Len(trace[u]) : trace[u][k].ev = e}
HasEv(u, e)     == EvIndices(u, e) # {}
CountEv(u, e)   == Cardinality(EvIndices(u, e))
\* The children of u that event e is recorded for.
EvChildren(u, e) == {trace[u][k].i : k \in EvIndices(u, e)}

DeliveryReceipts(u) ==
    {k \in 1..Len(sent[u]) : /\ sent[u][k].tag = "receipt"
                             /\ sent[u][k].type \in {"sender", "inactive"}}
Acks(u) == {k \in 1..Len(sent[u]) : sent[u][k].tag = "ack"}
RetryReceipts(u) ==
    {k \in 1..Len(sent[u]) : /\ sent[u][k].tag = "receipt"
                             /\ sent[u][k].type = "retry"}

\* decryptMessages has returned.
Returned(u) == pc[u] \in {"done", "retried"}
\* The goroutine of u has been started.
Started(u) == pc[u] \notin {"idle", "ignored", "dropped"}
\* sendRetryReceipt of u has read its retryCount.
HasReadCount(u) == pc[u] \in {"retry_unlock", "retry_send", "retried"}

(***************************************************************************)
(* C1.  Concurrent calls of sendRetryReceipt for one id: no two of them    *)
(* read the same count, and whenever none of them is between Lock() and    *)
(* the read of its count, the counter of the id equals the number N of     *)
(* calls that have read their count, and the counts read are 1..N.         *)
(***************************************************************************)
C1_Readers(id) == {u \in Units : RetryId(u) = id /\ HasReadCount(u)}

C1_InFlight(id) ==
    {u \in Units : /\ RetryId(u) = id
                   /\ pc[u] \in {"retry_load", "retry_store", "retry_read"}}

C1_RetryCounterSerialized ==
    \A id \in IdStrs :
        /\ \A u, v \in C1_Readers(id) : u # v => retryCount[u] # retryCount[v]
        /\ C1_InFlight(id) = {} =>
              /\ messageRetries[id] = Cardinality(C1_Readers(id))
              /\ {retryCount[u] : u \in C1_Readers(id)}
                    = 1..Cardinality(C1_Readers(id))

\* Every unit of the behaviour triggered a retry for id "A", and the unit
\* that arrived first took the lock last.
C1_Witness ==
    /\ \A u \in Units : pc[u] = "retried" /\ RetryId(u) = "A"
    /\ messageRetries["A"] = MaxUnits
    /\ retryCount[1] = MaxUnits

(***************************************************************************)
(* C2.  Batch abort: once a sub-unit of a unit has failed decryption, no   *)
(* sub-unit of the unit has been dispatched, and when decryptMessages has  *)
(* returned exactly one retry receipt was sent for the unit.               *)
(***************************************************************************)
C2_BatchAbort ==
    \A u \in Units :
        HasEv(u, "failed") =>
            /\ ~HasEv(u, "dispatch")
            /\ pc[u] = "retried" => Cardinality(RetryReceipts(u)) = 1

(***************************************************************************)
(* C3.  As claimed: a unit with a decrypted and decoded sub-unit has, when *)
(* decryptMessages returns, one delivery receipt followed by one ack.      *)
(***************************************************************************)
C3_ReceiptThenAck(u) ==
    /\ Cardinality(DeliveryReceipts(u)) = 1
    /\ Cardinality(Acks(u)) = 1
    /\ \A r \in DeliveryReceipts(u), a \in Acks(u) : r < a

C4_NoSuccessNoReceipt ==
    \A u \in Units :
        ~HasEv(u, "decoded") => DeliveryReceipts(u) = {} /\ Acks(u) = {}

\* A unit whose decrypts all succeeded and whose payloads all failed to
\* decode: the loop ended, nothing was sent.
C4_Witness ==
    /\ pc[1] = "done"
    /\ HasEv(1, "undecodable") /\ ~HasEv(1, "decoded")
    /\ HasEv(1, "unhandled")
    /\ sent[1] = << >>

(***************************************************************************)
(* C5.  As claimed: a unit whose children are all tagged `unavailable`     *)
(* makes no decrypt attempt, sends exactly one retry receipt, increments   *)
(* the counter of its id by one and sends or dispatches nothing else.      *)
(***************************************************************************)
C5_AllTaggedUnavailable(u) ==
    \A k \in 1..Len(node[u].children) : node[u].children[k].tag = "unavailable"

C5_NoDecryptNoDelivery(u) ==
    /\ pc[u] \in {"start", "retry", "retry_load", "retry_store", "retry_read",
                  "retry_unlock", "retry_send", "retried"}
    /\ ~HasEv(u, "decrypt")
    /\ ~HasEv(u, "dispatch")
    /\ DeliveryReceipts(u) = {} /\ Acks(u) = {}

C5_Original ==
    \A u \in Units :
        (Started(u) /\ C5_AllTaggedUnavailable(u)) =>
            /\ C5_NoDecryptNoDelivery(u)
            /\ pc[u] = "retried" =>
                  /\ CountEv(u, "incr") = 1
                  /\ Cardinality(RetryReceipts(u)) = 1
                  /\ Len(sent[u]) = 1

(***************************************************************************)
(* C5, amended.  Such a unit makes no decrypt attempt, calls               *)
(* sendRetryReceipt once, which increments the counter of its id by one,   *)
(* and sends or dispatches nothing else; the call sends exactly one retry  *)
(* receipt, except that it sends none when the count it read is above 1    *)
(* and the device-identity record fails to serialize.                      *)
(***************************************************************************)
C5_AllUnavailableRetry ==
    \A u \in Units :
        (Started(u) /\ C5_AllTaggedUnavailable(u)) =>
            /\ C5_NoDecryptNoDelivery(u)
            /\ pc[u] = "retried" =>
                  /\ CountEv(u, "incr") = 1
                  /\ CountEv(u, "lock") = 1
                  /\ retryCount[u] = loaded[u] + 1
                  /\ Len(sent[u]) = Cardinality(RetryReceipts(u))
                  /\ Len(sent[u]) <= 1
                  /\ retryCount[u] = 1 => Len(sent[u]) = 1

\* A unit of MaxChildren unavailable children whose retry was sent.
C5_Witness ==
    /\ pc[1] = "retried"
    /\ Len(node[1].children) = MaxChildren
    /\ C5_AllTaggedUnavailable(1)
    /\ Cardinality(RetryReceipts(1)) = 1

(***************************************************************************)
(* C6.  Retry escalation: the retry receipt sent by the k-th call of       *)
(* sendRetryReceipt for an id (in the order the calls took the lock)       *)
(* carries count k; it has a `keys` child exactly when k > 1, and the      *)
(* `keys` child holds one one-time prekey beside type, identity, signed    *)
(* prekey and device identity.  The first call always sends its receipt,   *)
(* without `keys`.                                                         *)
(***************************************************************************)
C6_LockRank(u) == trace[u][CHOOSE k \in EvIndices(u, "lock") : TRUE].i

C6_PreKeys(keys) == {k \in 1..Len(keys) : keys[k] = "prekey"}

C6_RetryEscalation ==
    \A u \in Units :
        /\ \A k \in RetryReceipts(u) :
              LET r == sent[u][k]
                  rank == C6_LockRank(u)
              IN  /\ r.count = rank
                  /\ (r.keys # << >>) <=> (rank > 1)
                  /\ rank > 1 =>
                        /\ Cardinality(C6_PreKeys(r.keys)) = 1
                        /\ {r.keys[j] : j \in 1..Len(r.keys)} =
                              {"type", "identity", "prekey", "signed-prekey",
                               "device-identity"}
        /\ (pc[u] = "retried" /\ C6_LockRank(u) = 1) =>
              /\ Cardinality(RetryReceipts(u)) = 1
              /\ \A k \in RetryReceipts(u) : sent[u][k].keys = << >>

\* Two calls for one id that ran concurrently: unit 2 took the lock first
\* and sent count 1 without keys, unit 1 sent count 2 with the bundle.
C6_Witness ==
    /\ pc[1] = "retried" /\ pc[2] = "retried"
    /\ RetryId(1) = RetryId(2)
    /\ \E k \in RetryReceipts(2) : sent[2][k].count = 1 /\ sent[2][k].keys = << >>
    /\ \E k \in RetryReceipts(1) : sent[1][k].count = 2 /\ sent[1][k].keys # << >>

(***************************************************************************)
(* C7.  As claimed: a `skmsg` sub-unit whose decrypt is attempted while    *)
(* the store has no sender-key session for (chat, sender) fails, without a *)
(* panic and without being dispatched, and exactly one retry receipt is    *)
(* sent for the unit.                                                      *)
(***************************************************************************)
C7_FailsUndispatched(u) ==
    /\ EvChildren(u, "nokey") \subseteq EvChildren(u, "failed")
    /\ EvChildren(u, "nokey") \cap EvChildren(u, "dispatch") = {}
    /\ pc[u] \in {"retry", "retry_load", "retry_store", "retry_read",
                  "retry_unlock", "retry_send", "retried"}

C7_Original ==
    \A u \in Units :
        HasEv(u, "nokey") =>
            /\ C7_FailsUndispatched(u)
            /\ pc[u] = "retried" => Cardinality(RetryReceipts(u)) = 1

(***************************************************************************)
(* C7, amended.  Such a sub-unit fails, without a panic and without being  *)
(* dispatched, and the unit's task calls sendRetryReceipt once; the call   *)
(* sends exactly one retry receipt, except that it sends none when the     *)
(* count it read is above 1 and the device-identity record fails to        *)
(* serialize.                                                              *)
(***************************************************************************)
C7_NoSenderKeyRetry ==
    \A u \in Units :
        HasEv(u, "nokey") =>
            /\ C7_FailsUndispatched(u)
            /\ pc[u] = "retried" =>
                  /\ CountEv(u, "lock") = 1
                  /\ CountEv(u, "incr") = 1
                  /\ Cardinality(RetryReceipts(u)) <= 1
                  /\ retryCount[u] = 1 => Cardinality(RetryReceipts(u)) = 1

\* Unit 1's group ciphertext was tried before any distribution and its
\* retry was sent; unit 2 then delivered the distribution for the pair.
C7_Witness ==
    /\ HasEv(1, "nokey") /\ pc[1] = "retried"
    /\ Cardinality(RetryReceipts(1)) = 1
    /\ HasEv(2, "skd")
    /\ SenderKeyName(GroupJID, PeerJID) \in senderKeys

(***************************************************************************)
(* C8.  Padding round trip, with the check enabled:                        *)
(* unpadMessage(padMessage(x)) returns x for every x and every random byte.*)
(***************************************************************************)
C8_RoundTrip ==
    (padPc = "roundtrip" /\ CheckPadding) => padRes = UnpadOk(padX)

(***************************************************************************)
(* C9.  With the check enabled, unpadMessage of a non-empty buffer whose   *)
(* last byte is v fails with a padding error when the buffer is shorter    *)
(* than v or one of its last v bytes differs from v, and otherwise returns *)
(* the buffer without its last v bytes.                                    *)
(***************************************************************************)
C9_BadTail(buf) ==
    LET n == Len(buf)
        v == buf[n]
    IN  \/ n < v
        \/ \E k \in (n - v + 1)..n : buf[k] # v

C9_UnpadValidates ==
    (padPc = "unpadded" /\ CheckPadding /\ Len(padBuf) > 0) =>
        IF C9_BadTail(padBuf)
        THEN padRes.status = "BadPadding"
        ELSE padRes = UnpadOk(SubSeq(padBuf, 1, Len(padBuf) - padBuf[Len(padBuf)]))

\* A buffer long enough for its last byte 2 whose last two bytes differ.
C9_Witness ==
    /\ padPc = "unpadded" /\ CheckPadding
    /\ Len(padBuf) = 2 /\ padBuf[2] = 2 /\ padBuf[1] # 2
    /\ padRes.status = "BadPadding"

(***************************************************************************)
(* C10.  Failure containment: no task of an inbound unit ever panics.      *)
(***************************************************************************)
C10_NoPanic == \A u \in Units : pc[u] # "panic"

(***************************************************************************)
(* C11.  Every sub-unit that was decrypted and decoded is forwarded to     *)
(* dispatchEvent exactly once, whatever its payload carries: never twice,  *)
(* and once as soon as handleDecryptedMessage is over for it.              *)
(***************************************************************************)
C11_Dispatches(u, i) ==
    Cardinality({k \in EvIndices(u, "dispatch") : trace[u][k].i = i})

C11_DispatchedOnce ==
    \A u \in Units :
        \A i \in EvChildren(u, "decoded") :
            /\ C11_Dispatches(u, i) <= 1
            /\ pc[u] # "handle" => C11_Dispatches(u, i) = 1

(***************************************************************************)
(* C12.  A sub-unit with an unknown encryption type is skipped: the step   *)
(* of the loop that meets it makes no decrypt call, sends nothing, leaves  *)
(* the retry counters, the lock, the sender keys and `handled` as they     *)
(* were and moves on to the next sub-unit, so that the task goes on as on  *)
(* the unit without that sub-unit; and when the loop has run to its end    *)
(* every pairwise or group ciphertext after the skipped sub-unit has had   *)
(* its decrypt attempt, and its dispatch if it decrypted and decoded.      *)
(***************************************************************************)
C12_KnownTypes == {"pkmsg", "msg", "skmsg"}

C12_UnknownType(child) ==
    child.tag = "enc" /\ child.type # NoStr /\ child.type \notin C12_KnownTypes

C12_AtUnknown(u) ==
    /\ pc[u] = "loop"
    /\ idx[u] <= Len(node[u].children)
    /\ C12_UnknownType(node[u].children[idx[u]])

C12_SkipStep(u) ==
    /\ pc'[u] = "loop"
    /\ idx'[u] = idx[u] + 1
    /\ trace'[u] = Append(trace[u], Ev("unhandled", idx[u]))
    /\ UNCHANGED <<node, info, handled, msg, retryCount, sent, sharedVars>>

C12_LaterProcessed(u) ==
    \A i \in 1..Len(node[u].children), j \in 1..Len(node[u].children) :
        (C12_UnknownType(node[u].children[i]) /\ i < j) =>
            LET c == node[u].children[j]
            IN  /\ (c.tag = "enc" /\ c.type \in {"pkmsg", "msg"})
                      => j \in EvChildren(u, "decrypt")
                /\ (c.tag = "enc" /\ c.type = "skmsg" /\ info[u].Chat # NoJID)
                      => j \in EvChildren(u, "decrypt")
                /\ j \in EvChildren(u, "decoded")
                      => j \in EvChildren(u, "dispatch")

C12_UnknownTypeSkipped ==
    /\ [][\A u \in Units :
             (C12_AtUnknown(u) /\ <<pc[u], idx[u], trace[u]>>' # <<pc[u], idx[u], trace[u]>>)
                 => C12_SkipStep(u)]_vars
    /\ [](\A u \in Units : pc[u] = "done" => C12_LaterProcessed(u))

\* An unknown type first, then a pairwise ciphertext that was decrypted,
\* dispatched and acknowledged; no retry was triggered.
C12_Witness ==
    /\ pc[1] = "done"
    /\ Len(node[1].children) = 2
    /\ C12_UnknownType(node[1].children[1])
    /\ node[1].children[2] = Enc("msg")
    /\ trace[1] = <<Ev("unhandled", 1), Ev("decrypt", 2), Ev("decoded", 2),
                    Ev("dispatch", 2)>>
    /\ Cardinality(DeliveryReceipts(1)) = 1
    /\ RetryReceipts(1) = {}

(***************************************************************************)
(* C13.  A `message` unit whose metadata does not parse (no valid `from`,  *)
(* a group address without a valid `participant`, no `id`, no `t` or a `t` *)
(* that is not a base-10 integer) is dropped by handleEncryptedMessage: no *)
(* task is started for it, so it has no decrypt attempt, no dispatch and   *)
(* no step of sendRetryReceipt, nothing is sent for it, and the step that  *)
(* drops it leaves the retry counters as they were.                        *)
(***************************************************************************)
C13_Malformed(n) ==
    \/ n.from = NoJID
    \/ n.from.server = GroupServer /\ n.participant = NoJID
    \/ n.id = NoStr
    \/ n.t = NoStr
    \/ ~ParseInt(n.t).ok

C13_MalformedDropped ==
    /\ [](\A u \in Units :
             (pc[u] # "idle" /\ node[u].tag = "message" /\ C13_Malformed(node[u]))
                 => /\ pc[u] = "dropped"
                    /\ trace[u] = << >>
                    /\ sent[u] = << >>
                    /\ idx[u] = 0 /\ ~handled[u])
    /\ [][\A u \in Units :
             (pc[u] = "idle" /\ pc'[u] = "dropped")
                 => UNCHANGED <<messageRetries, messageRetriesLock, senderKeys,
                                trace, sent>>]_vars

\* A group unit without participant, dropped by a client whose counters
\* stand at one.
C13_Witness ==
    /\ pc[1] = "dropped"
    /\ node[1].tag = "message"
    /\ node[1].from = GroupJID /\ node[1].participant = NoJID
    /\ node[1].id = "A" /\ node[1].t = "1630"
    /\ node[1].children = <<Enc("skmsg"), Unavailable>>
    /\ messageRetries["A"] = 1
    /\ sent[1] = << >>

(***************************************************************************)
(* C14.  parseMessageInfo rejects an empty `id`: a `message` unit whose    *)
(* `id` attribute is the empty string is dropped, so no task runs for it,  *)
(* no call of sendRetryReceipt is made with the empty id and the counter   *)
(* of the empty id is never incremented.                                   *)
(***************************************************************************)
C14_EmptyIdRejected ==
    \A u \in Units :
        (pc[u] # "idle" /\ node[u].tag = "message" /\ node[u].id = "") =>
            /\ ~Started(u)
            /\ ~HasEv(u, "lock")
            /\ ~HasEv(u, "incr")

(***************************************************************************)
(* C15.  handleDecryptedMessage sends at most one protocol-message receipt *)
(* for a payload: `hist_sync`, and nothing else, when the payload carries  *)
(* a history-sync notification, and `peer_msg` only when it carries        *)
(* another protocol message and the category of the unit is `peer`.        *)
(***************************************************************************)
C15_SentBy(u) == SubSeq(sent'[u], Len(sent[u]) + 1, Len(sent'[u]))

C15_OneProtocolReceipt ==
    [][\A u \in Units :
          (pc[u] = "handle" /\ pc'[u] = "loop") =>
              LET new == C15_SentBy(u)
              IN  /\ Len(new) <= 1
                  /\ \A k \in 1..Len(new) :
                        /\ new[k].tag = "receipt"
                        /\ new[k].type =
                              IF msg[u].proto = "hist" THEN "hist_sync"
                              ELSE "peer_msg"
                        /\ msg[u].proto # "none"
                        /\ new[k].type = "peer_msg" => info[u].Category = "peer"
                  /\ (msg[u].proto = "hist" /\ info[u].ID # "") => Len(new) = 1]_vars

(***************************************************************************)
(* C16.  As claimed: the counter of an id never decreases, and when no     *)
(* call of sendRetryReceipt for the id is under way, it equals the number  *)
(* of retry receipts handed to the transport for the id since the client   *)
(* started.                                                                *)
(***************************************************************************)
C16_UnderWay(id) ==
    {u \in Units : /\ RetryId(u) = id
                   /\ pc[u] \in {"retry", "retry_load", "retry_store",
                                  "retry_read", "retry_unlock", "retry_send"}}

\* The retry receipts sent for id, each as the pair of its unit and its
\* position among the units that task sent.
C16_SentFor(id) ==
    UNION {{<<u, k>> : k \in {j \in RetryReceipts(u) : sent[u][j].id = id}}
              : u \in Units}

C16_NeverDecreases ==
    \A id \in IdStrs : messageRetries'[id] >= messageRetries[id]

C16_Original ==
    /\ [][C16_NeverDecreases]_vars
    /\ [](\A id \in IdStrs :
             C16_UnderWay(id) = {} =>
                 messageRetries[id] = Cardinality(C16_SentFor(id)))

(***************************************************************************)
(* C16, amended.  The counter of an id never decreases and changes only    *)
(* by steps of one; when no call of sendRetryReceipt for the id is under   *)
(* way, it equals the number of calls made for the id since the client     *)
(* started.  Each of these calls has handed at most one retry receipt to   *)
(* the transport, and exactly one unless the count it read is above 1 and  *)
(* the device-identity record failed to serialize: the counter is then     *)
(* above the number of retry receipts sent.                                *)
(***************************************************************************)
C16_Calls(id) == {u \in Units : RetryId(u) = id /\ pc[u] = "retried"}

C16_CounterCountsCalls ==
    /\ [][\A id \in IdStrs :
             \/ messageRetries'[id] = messageRetries[id]
             \/ messageRetries'[id] = messageRetries[id] + 1]_vars
    /\ [](\A id \in IdStrs :
             C16_UnderWay(id) = {} =>
                 /\ messageRetries[id] = Cardinality(C16_Calls(id))
                 /\ Cardinality(C16_SentFor(id)) <= messageRetries[id]
                 /\ \A u \in C16_Calls(id) :
                       /\ Cardinality(RetryReceipts(u)) <= 1
                       /\ retryCount[u] <= 1 => Cardinality(RetryReceipts(u)) = 1
                 /\ \A u \in Units \ C16_Calls(id) :
                       \A k \in RetryReceipts(u) : sent[u][k].id # id)

\* Two calls for id "A" have returned: the first sent its receipt, the
\* second read count 2 and sent nothing, and the counter stands at 2.
C16_Witness ==
    /\ C16_UnderWay("A") = {}
    /\ Cardinality(C16_Calls("A")) = 2
    /\ messageRetries["A"] = 2
    /\ Cardinality(C16_SentFor("A")) = 1

(***************************************************************************)
(* C17.  messageRetriesLock is held only across the increment and the read *)
(* of the counter: its holder is between Lock() and Unlock() of            *)
(* sendRetryReceipt, and no step of a task that makes a decrypt call,      *)
(* handles a payload (history-sync download, protocol receipts), sends the *)
(* delivery receipt and ack, or generates the prekey and sends the retry   *)
(* receipt is taken by the holder of the lock.                             *)
(***************************************************************************)
C17_Critical == {"retry_load", "retry_store", "retry_read", "retry_unlock"}

\* Where a task is about to decrypt, handle, or send.
C17_Blocking == {"loop", "handle", "retry_send"}

C17_Steps(u) == <<pc[u], idx[u], trace[u], sent[u]>>' # <<pc[u], idx[u], trace[u], sent[u]>>

C17_NoBlockingUnderLock ==
    /\ [](\A u \in Units : messageRetriesLock = u => pc[u] \in C17_Critical)
    /\ [][\A u \in Units :
             (C17_Steps(u) /\ (pc[u] \in C17_Blocking \/ sent'[u] # sent[u]))
                 => messageRetriesLock # u /\ messageRetriesLock' # u]_vars

\* Unit 1 is in the send of its retry receipt while unit 2 holds the lock
\* and writes the counter of the same id.
C17_Witness ==
    /\ pc[1] = "retry_send"
    /\ messageRetriesLock = 2
    /\ pc[2] = "retry_store"
    /\ RetryId(1) = RetryId(2)

(***************************************************************************)
(* C18.  Within one unit the decrypt calls are made in the order of the    *)
(* children, at most one for a child; after the call that fails the task   *)
(* makes no other decrypt call, dispatches nothing and meets no other      *)
(* child: it calls sendRetryReceipt and returns, and the retry receipt, if *)
(* one was sent, is the last unit it sent.                                 *)
(***************************************************************************)
C18_RetryPath ==
    {"retry", "retry_load", "retry_store", "retry_read", "retry_unlock",
     "retry_send", "retried"}

C18_SequentialUntilFailure ==
    \A u \in Units :
        /\ \A a \in EvIndices(u, "decrypt"), b \in EvIndices(u, "decrypt") :
              a < b => trace[u][a].i < trace[u][b].i
        /\ \A f \in EvIndices(u, "failed") :
              /\ \A k \in 1..Len(trace[u]) :
                    k > f => trace[u][k].ev \in {"lock", "incr"}
              /\ \A k \in 1..Len(trace[u]) :
                    k < f => trace[u][k].i <= trace[u][f].i
              /\ pc[u] \in C18_RetryPath
              /\ \A k \in RetryReceipts(u) : k = Len(sent[u])
              /\ pc[u] = "retried" =>
                    /\ CountEv(u, "lock") = 1
                    /\ Acks(u) = {} /\ DeliveryReceipts(u) = {}

\* The decrypt of the first of two pairwise ciphertexts failed: the second
\* was never tried, and the task returned after its retry receipt.
C18_Witness ==
    /\ pc[1] = "retried"
    /\ node[1].children = <<Enc("pkmsg"), Enc("msg")>>
    /\ trace[1] = <<Ev("decrypt", 1), Ev("failed", 1), Ev("lock", 1), Ev("incr", 0)>>
    /\ Cardinality(RetryReceipts(1)) = 1
    /\ Len(sent[1]) = 1

(***************************************************************************)
(* C19.  As claimed: within one group unit, once the payload of a sub-unit *)
(* has carried a sender-key distribution, no group decrypt of a later      *)
(* sub-unit of the unit is made while the store has no sender-key session  *)
(* for (chat, sender).                                                     *)
(***************************************************************************)
\* The children of u whose payload carried a distribution message: parsed
\* and processed by the builder, or not parsed.
C19_Carried(u) == EvChildren(u, "skd") \cup EvChildren(u, "badskd")

C19_Original ==
    \A u \in Units :
        \A i \in C19_Carried(u), j \in EvChildren(u, "nokey") : ~(i < j)

(***************************************************************************)
(* C19, amended.  Within one group unit, handleSenderKeyDistributionMessage*)
(* has returned for the distribution of a sub-unit before the decrypt of a *)
(* later sub-unit is called.  When the distribution parsed, the builder    *)
(* has processed it by then: the session of (chat, sender) is in the store *)
(* and no group decrypt of a later sub-unit finds the store without it.    *)
(* When it did not parse, nothing was stored: a later group decrypt may    *)
(* find no session.                                                        *)
(***************************************************************************)
C19_DistributionBeforeLaterDecrypt ==
    \A u \in Units :
        /\ \A a \in EvIndices(u, "skd") \cup EvIndices(u, "badskd"),
              b \in EvIndices(u, "decrypt") :
                 trace[u][a].i < trace[u][b].i => a < b
        /\ HasEv(u, "skd") =>
              SenderKeyName(info[u].Chat, info[u].From) \in senderKeys
        /\ \A i \in EvChildren(u, "skd"), j \in EvChildren(u, "nokey") : ~(i < j)

\* The store had no session; the first child brought the distribution,
\* which was processed, and the group ciphertext after it was decrypted.
C19_Witness ==
    /\ info[1].Chat = GroupJID
    /\ node[1].children = <<Enc("pkmsg"), Enc("skmsg")>>
    /\ trace[1] = <<Ev("decrypt", 1), Ev("decoded", 1), Ev("skd", 1),
                    Ev("dispatch", 1), Ev("decrypt", 2), Ev("decoded", 2)>>

(***************************************************************************)
(* C20.  One run of decryptMessages sends at most one retry receipt, and   *)
(* never a retry receipt together with a delivery receipt or an ack; a run *)
(* that has sent a delivery receipt or an ack has made no call of          *)
(* sendRetryReceipt and has not written the retry counters.                *)
(***************************************************************************)
C20_OutcomeExclusive ==
    \A u \in Units :
        /\ Cardinality(RetryReceipts(u)) <= 1
        /\ RetryReceipts(u) = {} \/ (DeliveryReceipts(u) = {} /\ Acks(u) = {})
        /\ (DeliveryReceipts(u) # {} \/ Acks(u) # {}) =>
              /\ pc[u] = "done"
              /\ ~HasEv(u, "lock")
              /\ ~HasEv(u, "incr")
        /\ HasEv(u, "lock") => (DeliveryReceipts(u) = {} /\ Acks(u) = {})

\* The first child was dispatched, the second failed: the run sent its
\* retry receipt and returned, with no delivery receipt and no ack.
C20_Witness ==
    /\ pc[1] = "retried"
    /\ EvChildren(1, "dispatch") = {1}
    /\ EvChildren(1, "failed") = {2}
    /\ Cardinality(RetryReceipts(1)) = 1
    /\ DeliveryReceipts(1) = {} /\ Acks(1) = {}

=============================================================================
